---- MODULE Spec2Model ----
(***************************************************************************)
(* The orchestration core of devika: Agent.execute, Agent.subsequent_execute *)
(* Agent.make_decision, Agent.search_queries and                             *)
(* Agent.update_contextual_keywords                                          *)
(* (src/devika/agents/agent.py), run by one orchestrator thread, and a       *)
(* separate write path that appends Messages to the Session State while the  *)
(* orchestrator runs.                                                        *)
(*                                                                           *)
(* Every step of a handler that reads or writes the Session State is one     *)
(* action, so that the write path interleaves with the handler exactly where *)
(* the code touches shared state.  Roles and external collaborators are      *)
(* black boxes: their results are drawn from small sets and each call may    *)
(* raise, which aborts the run.                                              *)
(***************************************************************************)
EXTENDS Integers, Sequences, FiniteSets, TLC

(***************************************************************************)
(* Bounds of the model.                                                      *)
(***************************************************************************)
MaxEvents == 3      \* handler invocations plus Messages of the write path
MaxQueries == 1     \* length of the Researcher's query list
MaxSearchQueries == 2   \* length of the list given to search_queries called alone
MaxKeywords == 1    \* length of the keyword extractor's result
MaxItems == 2       \* length of the Decision role's item list

(***************************************************************************)
(* Data.  Texts are sequences of one-character strings where the code looks  *)
(* inside them (queries), and opaque tokens otherwise.  A Message body is a  *)
(* sequence of strings.                                                      *)
(***************************************************************************)
ProjectOrder == <<"p1", "p2">>
Projects == { ProjectOrder[i] : i \in 1..Len(ProjectOrder) }
None == "None"
Prompts == {"Build a todo app"}
UserTexts == {"answer"}
SystemTexts == {"notice"}
Terms == {"k1", "k2"}
Scores == {1}
Questions == {"", "Which framework?"}
ActionKinds == {"answer", "run", "deploy", "feature", "bug", "report"}
Unbound == "<unbound>"

\* Raw query strings the Researcher may return.
QueryPool == { <<" ", "A">> }

\* Raw query strings given to search_queries when it is called alone.
SearchPool == { <<"A", " ">>, <<"a">>, <<" ", "b">>, <<"a", " ", "B">> }

Whitespace == {" "}

RECURSIVE SeqsUpTo(_, _)
SeqsUpTo(S, n) ==
    IF n = 0 THEN { <<>> }
    ELSE LET shorter == SeqsUpTo(S, n - 1)
         IN  shorter \cup { Append(s, x) : s \in { t \in shorter : Len(t) = n - 1 }, x \in S }

Last(s) == s[Len(s)]

(***************************************************************************)
(* str.strip() and str.lower() of a query.                                   *)
(***************************************************************************)
RECURSIVE LStrip(_)
LStrip(s) ==
    IF s # <<>> /\ Head(s) \in Whitespace THEN LStrip(Tail(s)) ELSE s

RECURSIVE RStrip(_)
RStrip(s) ==
    IF s # <<>> /\ Last(s) \in Whitespace THEN RStrip(SubSeq(s, 1, Len(s) - 1)) ELSE s

Strip(s) == RStrip(LStrip(s))

LowerChar(c) ==
    CASE c = "A" -> "a"
      [] c = "B" -> "b"
      [] OTHER -> c

Lower(s) == [i \in 1..Len(s) |-> LowerChar(s[i])]

\* The query is trimmed but not lower-cased.
NormaliseQuery_NoLower(query) == Strip(query)

NormaliseQuery(query) == Lower(Strip(query))

\* ", ".join(queries)
RECURSIVE Join(_)
Join(qs) ==
    IF qs = <<>> THEN <<>>
    ELSE IF Len(qs) = 1 THEN Head(qs)
    ELSE Head(qs) \o <<",", " ">> \o Join(Tail(qs))

(***************************************************************************)
(* Session State: per objective the flags and the append-only message log.   *)
(* ProjectManager and AgentState are not part of the sources at hand; their  *)
(* operations are modelled from the interface the specification gives.       *)
(***************************************************************************)
VARIABLES
    created,                      \* objectives with a Session State
    active,                       \* [Projects -> BOOLEAN]
    completed,                    \* [Projects -> BOOLEAN]
    messages,                     \* [Projects -> Seq(Message)]
    project_code,                 \* [Projects -> Seq(code)], code persisted
    collected_context_keywords,   \* the Contextual Keyword Set
    run,                          \* the orchestrator thread: position and locals
    calls,                        \* role/collaborator invocations of this run
    seen_active,                  \* this run has written active = true
    asked_at,                     \* timestamp of this run's clarifying question
    nevents                       \* handler invocations and write-path Messages so far

vars == << created, active, completed, messages, project_code,
           collected_context_keywords, run, calls, seen_active, asked_at,
           nevents >>

NoMessage == [origin |-> "none", body |-> <<>>, timestamp |-> 0]

\* A Message; its timestamp is its position in the log.
Message(origin, body, log) ==
    [origin |-> origin, body |-> body, timestamp |-> Len(log) + 1]

add_message_from_user(msgs, p, body) ==
    [msgs EXCEPT ![p] = Append(@, Message("user", body, @))]

add_message_from_devika(msgs, p, body) ==
    [msgs EXCEPT ![p] = Append(@, Message("system", body, @))]

get_latest_message_from_user(msgs, p) ==
    LET idx == { i \in 1..Len(msgs[p]) : msgs[p][i].origin = "user" }
    IN  IF idx = {} THEN NoMessage
        ELSE msgs[p][CHOOSE i \in idx : \A j \in idx : j <= i]

validate_last_message_is_from_user(msgs, p) ==
    /\ msgs[p] # <<>>
    /\ Last(msgs[p]).origin = "user"

get_all_messages_formatted(msgs, p) ==
    [i \in 1..Len(msgs[p]) |-> <<msgs[p][i].origin, ":">> \o msgs[p][i].body]

set_agent_active(flags, p, value) == [flags EXCEPT ![p] = value]

set_agent_completed(flags, p, value) == [flags EXCEPT ![p] = value]

create_project(cr, p) == cr \cup {p}

(***************************************************************************)
(* The orchestrator thread.  run.pc is the statement it is at; the other     *)
(* fields are the locals of the handler it runs.                             *)
(***************************************************************************)
NoPlan == [reply |-> "", focus |-> "", plans |-> "", summary |-> ""]

\* What Planner.execute followed by Planner.parse_response may yield, but for
\* the objective's name.
Plans == { [reply |-> "reply", focus |-> "focus", plans |-> "plans", summary |-> "summary"] }

\* The objective names the Planner may give.  Names are opaque to the code, so
\* a run without an identifier gets the first name no Session State has yet;
\* a run with an identifier may be given any name.
PlannerProjects(cr, pnu) ==
    IF pnu # None THEN Projects
    ELSE { ProjectOrder[i] : i \in { j \in 1..Len(ProjectOrder) :
                                       /\ ProjectOrder[j] \notin cr
                                       /\ \A k \in 1..(j - 1) : ProjectOrder[k] \in cr } }

NoUserInput == <<"Nothing from the user.">>

InitRun ==
    [ pc |-> "idle", fn |-> "none", outcome |-> "none", ret |-> "none",
      prompt |-> "", project_name_from_user |-> None, project_name |-> None,
      plan |-> NoPlan, queries |-> <<>>, ask_user |-> "",
      ask_user_prompt |-> <<>>, latest_message_from_user |-> NoMessage,
      got_user_query |-> FALSE, search_results |-> <<>>, qi |-> 0,
      keywords |-> <<>>, os_system |-> Unbound, action |-> "none",
      response |-> "", conversation |-> <<>>, code |-> "",
      decision |-> <<>>, di |-> 0,
      log0 |-> 0 ]    \* history: the length of the objective's log at the call

Call(op, arg) == [op |-> op, arg |-> arg]

\* The handler is left, by return or by an exception that propagates to the
\* caller: the thread is at the handler's end, with the frame as it was left.
Return(r) == [r EXCEPT !.pc = "end", !.outcome = "returned"]

\* The exception is caught and the handler returns.
Raise_Swallowed(r) == [r EXCEPT !.pc = "end", !.outcome = "returned"]

\* A call of a role or collaborator raised.
Raise(r) == [r EXCEPT !.pc = "end", !.outcome = "raised"]

\* The handler itself raised: a local is read that no statement has assigned.
RaiseUnbound(r) == [r EXCEPT !.pc = "end", !.outcome = "UnboundLocalError"]

session == << created, active, completed, messages, project_code >>

Init ==
    /\ created = {}
    /\ active = [p \in Projects |-> FALSE]
    /\ completed = [p \in Projects |-> FALSE]
    /\ messages = [p \in Projects |-> <<>>]
    /\ project_code = [p \in Projects |-> <<>>]
    /\ collected_context_keywords = {}
    /\ run = InitRun
    /\ calls = <<>>
    /\ seen_active = FALSE
    /\ asked_at = 0
    /\ nevents = 0

\* A handler is called while the orchestrator waits for input, too.
Idle_OrSuspended == run.pc \in {"idle", "e_poll_latest", "e_poll_validate"}

\* The orchestrator runs one handler at a time: a handler is called when the
\* thread is in none.
Idle == run.pc = "idle"

\* The calls cs return, and the thread goes on as r.
Go(r, cs) ==
    /\ run' = r
    /\ calls' = calls \o cs
    /\ UNCHANGED nevents

\* The last of the calls cs raises: the handler is left.
Fail(cs) ==
    /\ nevents < MaxEvents
    /\ nevents' = nevents + 1
    /\ run' = Raise(run)
    /\ calls' = calls \o cs

\* Back in the caller: the handler's frame is gone.
HandlerExit ==
    /\ run.pc = "end"
    /\ run' = InitRun
    /\ calls' = <<>>
    /\ seen_active' = FALSE
    /\ asked_at' = 0
    /\ UNCHANGED << session, collected_context_keywords, nevents >>

(***************************************************************************)
(* The separate write path (an interface layer) appends a Message to an      *)
(* existing objective at any moment.                                         *)
(***************************************************************************)
WriterAppendUser ==
    /\ nevents < MaxEvents
    /\ \E p \in created, text \in UserTexts :
          messages' = add_message_from_user(messages, p, <<text>>)
    /\ nevents' = nevents + 1
    /\ UNCHANGED << created, active, completed, project_code,
                    collected_context_keywords, run, calls, seen_active, asked_at >>

WriterAppendSystem ==
    /\ nevents < MaxEvents
    /\ \E p \in created, text \in SystemTexts :
          messages' = add_message_from_devika(messages, p, <<text>>)
    /\ nevents' = nevents + 1
    /\ UNCHANGED << created, active, completed, project_code,
                    collected_context_keywords, run, calls, seen_active, asked_at >>

(***************************************************************************)
(* Agent.update_contextual_keywords (agent.py 91-100).  It is called by      *)
(* execute (line 278) and is a public method of its own; run.ret is where    *)
(* it returns to.                                                            *)
(***************************************************************************)
\* What the keyword extractor may return: (term, score) pairs.
Extractions == SeqsUpTo(Terms \X Scores, MaxKeywords)

\* The set is assigned, not added to.
AddKeywords_Overwrites(set, keywords) == { keywords[i][1] : i \in 1..Len(keywords) }

\* for keyword in keywords: self.collected_context_keywords.add(keyword[0])
AddKeywords(set, keywords) == set \cup { keywords[i][1] : i \in 1..Len(keywords) }

UpdateStart ==
    /\ Idle
    /\ nevents < MaxEvents
    /\ nevents' = nevents + 1
    /\ run' = [InitRun EXCEPT !.pc = "u_extract", !.fn = "update_contextual_keywords",
                              !.ret = "return"]
    /\ UNCHANGED << session, collected_context_keywords, calls, seen_active, asked_at >>

\* line 95: keywords = self._bert_extractor.extract_keywords(sentence)
UpdateExtract ==
    /\ run.pc = "u_extract"
    /\ \/ \E kws \in Extractions :
             Go([run EXCEPT !.pc = "u_add", !.keywords = kws],
                << Call("extract_keywords", <<>>) >>)
       \/ Fail(<< Call("extract_keywords", <<>>) >>)
    /\ UNCHANGED << session, collected_context_keywords, seen_active, asked_at >>

\* lines 97-100: the loop of add calls, and the return
UpdateAdd ==
    /\ run.pc = "u_add"
    /\ collected_context_keywords' =
          AddKeywords(collected_context_keywords, run.keywords)
    /\ run' = IF run.ret = "return" THEN Return(run)
              ELSE [run EXCEPT !.pc = run.ret, !.ret = "none", !.keywords = <<>>]
    /\ UNCHANGED << session, calls, seen_active, asked_at, nevents >>

(***************************************************************************)
(* Agent.search_queries (agent.py 65-89): one action per loop iteration.     *)
(***************************************************************************)
Formatted == <<"formatted">>

\* results[query] = ...
Store(results, key, value) ==
    [k \in (DOMAIN results) \cup {key} |-> IF k = key THEN value ELSE results[k]]

\* The collaborator calls of one iteration, lines 78-87, in order.
SearchCalls(query) ==
    << Call("search", query), Call("get_first_link", <<>>), Call("go_to", <<>>),
       Call("screenshot", <<>>), Call("extract_text", <<>>), Call("formatter", <<>>) >>

\* search_queries called alone, on an existing or a new project name
SearchStart ==
    /\ Idle
    /\ nevents < MaxEvents
    /\ nevents' = nevents + 1
    /\ \E queries \in SeqsUpTo(SearchPool, MaxSearchQueries), p \in Projects :
          run' = [InitRun EXCEPT !.pc = "search", !.fn = "search_queries",
                                 !.ret = "return", !.queries = queries,
                                 !.project_name = p, !.qi = 1]
    /\ UNCHANGED << session, collected_context_keywords, calls, seen_active, asked_at >>

SearchQuery ==
    /\ run.pc = "search"
    /\ run.qi <= Len(run.queries)
    /\ LET query == NormaliseQuery(run.queries[run.qi])
           cs == SearchCalls(query)
       IN  \/ Go([run EXCEPT !.qi = @ + 1,
                             !.search_results = Store(@, query, Formatted)], cs)
           \/ \E k \in 1..Len(cs) : Fail(SubSeq(cs, 1, k))
    /\ UNCHANGED << session, collected_context_keywords, seen_active, asked_at >>

\* line 89: return results
SearchReturn ==
    /\ run.pc = "search"
    /\ run.qi > Len(run.queries)
    /\ run' = IF run.ret = "return" THEN Return(run)
              ELSE [run EXCEPT !.pc = run.ret, !.ret = "none", !.qi = 0]
    /\ UNCHANGED << session, collected_context_keywords, calls, seen_active,
                    asked_at, nevents >>

(***************************************************************************)
(* Agent.execute (agent.py 245-344).                                         *)
(***************************************************************************)
\* What Researcher.execute may yield: the queries and the clarifying question.
QueryLists == SeqsUpTo(QueryPool, MaxQueries)

\* line 292
Announcement(queries) ==
    <<"I am browsing the web to research the following queries: ">>
        \o Join(queries) \o <<". If I need anything, I will make sure to ask you.">>

Thanks == <<"Thanks!">>

Completion == <<"I have completed the coding task. You can now run the project.">>

\* The second read is not tested.
PollAccepts_IgnoresValidation(latest, validated) == latest # NoMessage

\* The test of the second read is inverted.
PollAccepts_Inverted(latest, validated) == latest # NoMessage /\ ~validated

\* line 312: if latest_message_from_user and validate_last_message_is_from_user
PollAccepts(latest, validated) == latest # NoMessage /\ validated

\* lines 245-250: the call, and the user's prompt recorded on a supplied identifier
ExecuteStart ==
    /\ Idle
    /\ nevents < MaxEvents
    /\ nevents' = nevents + 1
    /\ \E prompt \in Prompts, pnu \in created \cup {None} :
          /\ PlannerProjects(created, pnu) # {}
          /\ run' = [InitRun EXCEPT !.pc = "e_planner", !.fn = "execute",
                                    !.prompt = prompt,
                                    !.project_name_from_user = pnu]
          /\ messages' = IF pnu # None
                         THEN add_message_from_user(messages, pnu, <<prompt>>)
                         ELSE messages
    /\ UNCHANGED << created, active, completed, project_code,
                    collected_context_keywords, calls, seen_active, asked_at >>

\* lines 252-261
ExecutePlanner ==
    /\ run.pc = "e_planner"
    /\ \/ \E plan \in Plans,
             project \in PlannerProjects(created, run.project_name_from_user) :
             Go([run EXCEPT !.pc = "e_project", !.plan = plan,
                            !.project_name = project],
                << Call("planner", <<run.prompt>>) >>)
       \/ Fail(<< Call("planner", <<run.prompt>>) >>)
    /\ UNCHANGED << session, collected_context_keywords, seen_active, asked_at >>

\* Line 264 is missing: the Planner's name is kept.
ExecuteProject_PlannerName ==
    /\ run.pc = "e_project"
    /\ IF run.project_name_from_user # None
       THEN /\ run' = [run EXCEPT !.pc = "e_active"]
            /\ UNCHANGED created
       ELSE /\ run' = [run EXCEPT !.pc = "e_request"]
            /\ created' = create_project(created, run.project_name)
    /\ UNCHANGED << active, completed, messages, project_code,
                    collected_context_keywords, calls, seen_active, asked_at,
                    nevents >>

\* lines 263-267: reuse the supplied identifier, or create the project
ExecuteProject ==
    /\ run.pc = "e_project"
    /\ IF run.project_name_from_user # None
       THEN /\ run' = [run EXCEPT !.pc = "e_active",
                                  !.project_name = run.project_name_from_user]
            /\ UNCHANGED created
       ELSE /\ run' = [run EXCEPT !.pc = "e_request"]
            /\ created' = create_project(created, run.project_name)
    /\ UNCHANGED << active, completed, messages, project_code,
                    collected_context_keywords, calls, seen_active, asked_at,
                    nevents >>

\* The request is not recorded on the new objective.
ExecuteRequest_Skipped ==
    /\ run.pc = "e_request"
    /\ run' = [run EXCEPT !.pc = "e_active"]
    /\ UNCHANGED << session, collected_context_keywords, calls, seen_active,
                    asked_at, nevents >>

\* line 268
ExecuteRequest ==
    /\ run.pc = "e_request"
    /\ messages' = add_message_from_user(messages, run.project_name, <<run.prompt>>)
    /\ run' = [run EXCEPT !.pc = "e_active"]
    /\ UNCHANGED << created, active, completed, project_code,
                    collected_context_keywords, calls, seen_active, asked_at,
                    nevents >>

\* line 270
ExecuteActive ==
    /\ run.pc = "e_active"
    /\ active' = set_agent_active(active, run.project_name, TRUE)
    /\ seen_active' = (seen_active \/ active'[run.project_name])
    /\ run' = [run EXCEPT !.pc = "e_reply"]
    /\ UNCHANGED << created, completed, messages, project_code,
                    collected_context_keywords, calls, asked_at, nevents >>

\* line 272
ExecuteReply ==
    /\ run.pc = "e_reply"
    /\ messages' = add_message_from_devika(messages, run.project_name,
                                           <<run.plan.reply>>)
    /\ run' = [run EXCEPT !.pc = "e_plans"]
    /\ UNCHANGED << created, active, completed, project_code,
                    collected_context_keywords, calls, seen_active, asked_at,
                    nevents >>

\* lines 273-275
ExecutePlans ==
    /\ run.pc = "e_plans"
    /\ messages' = add_message_from_devika(messages, run.project_name,
                                           <<"json:", run.plan.plans>>)
    /\ run' = [run EXCEPT !.pc = "e_summary"]
    /\ UNCHANGED << created, active, completed, project_code,
                    collected_context_keywords, calls, seen_active, asked_at,
                    nevents >>

\* Line 278 is missing: the focus terms are not merged.
ExecuteSummary_NoUpdate ==
    /\ run.pc = "e_summary"
    /\ messages' = add_message_from_devika(messages, run.project_name,
                                           <<"In summary: ", run.plan.summary>>)
    /\ run' = [run EXCEPT !.pc = "e_researcher"]
    /\ UNCHANGED << created, active, completed, project_code,
                    collected_context_keywords, calls, seen_active, asked_at,
                    nevents >>

\* lines 276-278: the summary, then the call of update_contextual_keywords(focus)
ExecuteSummary ==
    /\ run.pc = "e_summary"
    /\ messages' = add_message_from_devika(messages, run.project_name,
                                           <<"In summary: ", run.plan.summary>>)
    /\ run' = [run EXCEPT !.pc = "u_extract", !.ret = "e_researcher"]
    /\ UNCHANGED << created, active, completed, project_code,
                    collected_context_keywords, calls, seen_active, asked_at,
                    nevents >>

\* lines 280-288
ExecuteResearcher ==
    /\ run.pc = "e_researcher"
    /\ \/ \E queries \in QueryLists, ask_user \in Questions :
             Go([run EXCEPT !.pc = "e_announce", !.queries = queries,
                            !.ask_user = ask_user],
                << Call("researcher", <<>>) >>)
       \/ Fail(<< Call("researcher", <<>>) >>)
    /\ UNCHANGED << session, collected_context_keywords, seen_active, asked_at >>

\* lines 290-297: the announcement, the sentinel, the test of ask_user
ExecuteAnnounce ==
    /\ run.pc = "e_announce"
    /\ messages' = add_message_from_devika(messages, run.project_name,
                                           Announcement(run.queries))
    /\ run' = [run EXCEPT !.pc = IF run.ask_user # "" THEN "e_ask" ELSE "e_resume",
                          !.ask_user_prompt = NoUserInput]
    /\ UNCHANGED << created, active, completed, project_code,
                    collected_context_keywords, calls, seen_active, asked_at,
                    nevents >>

\* line 298
ExecuteAsk ==
    /\ run.pc = "e_ask"
    /\ messages' = add_message_from_devika(messages, run.project_name,
                                           <<run.ask_user>>)
    /\ asked_at' = Len(messages'[run.project_name])
    /\ run' = [run EXCEPT !.pc = "e_suspend"]
    /\ UNCHANGED << created, active, completed, project_code,
                    collected_context_keywords, calls, seen_active, nevents >>

\* lines 299-302
ExecuteSuspend ==
    /\ run.pc = "e_suspend"
    /\ active' = set_agent_active(active, run.project_name, FALSE)
    /\ run' = [run EXCEPT !.pc = "e_poll_latest", !.got_user_query = FALSE]
    /\ UNCHANGED << created, completed, messages, project_code,
                    collected_context_keywords, calls, seen_active, asked_at,
                    nevents >>

\* lines 303-307: the first read of the poll
PollLatest ==
    /\ run.pc = "e_poll_latest"
    /\ run' = [run EXCEPT !.pc = "e_poll_validate",
                          !.latest_message_from_user =
                              get_latest_message_from_user(messages, run.project_name)]
    /\ UNCHANGED << session, collected_context_keywords, calls, seen_active,
                    asked_at, nevents >>

\* lines 308-314 and, when not accepted, 316 and 302: the second read and the test
PollValidate ==
    /\ run.pc = "e_poll_validate"
    /\ LET validated == validate_last_message_is_from_user(messages, run.project_name)
       IN  run' = IF PollAccepts(run.latest_message_from_user, validated)
                  THEN [run EXCEPT !.pc = "e_ack",
                                   !.ask_user_prompt = run.latest_message_from_user.body,
                                   !.got_user_query = TRUE]
                  ELSE [run EXCEPT !.pc = "e_poll_latest",
                                   !.latest_message_from_user = NoMessage]
    /\ UNCHANGED << session, collected_context_keywords, calls, seen_active,
                    asked_at, nevents >>

\* lines 315-316 and the loop's exit at 302
PollAck ==
    /\ run.pc = "e_ack"
    /\ messages' = add_message_from_devika(messages, run.project_name, Thanks)
    /\ run' = [run EXCEPT !.pc = "e_resume"]
    /\ UNCHANGED << created, active, completed, project_code,
                    collected_context_keywords, calls, seen_active, asked_at,
                    nevents >>

\* Line 318 is missing: active is left as the wait left it.
ExecuteResume_StaysInactive ==
    /\ run.pc = "e_resume"
    /\ run' = [run EXCEPT !.pc = "search", !.ret = "e_coder", !.qi = 1,
                          !.search_results = <<>>]
    /\ UNCHANGED << session, collected_context_keywords, calls, seen_active,
                    asked_at, nevents >>

\* lines 318-320: active again, and the call of search_queries
ExecuteResume ==
    /\ run.pc = "e_resume"
    /\ active' = set_agent_active(active, run.project_name, TRUE)
    /\ seen_active' = (seen_active \/ active'[run.project_name])
    /\ run' = [run EXCEPT !.pc = "search", !.ret = "e_coder", !.qi = 1,
                          !.search_results = <<>>]
    /\ UNCHANGED << created, completed, messages, project_code,
                    collected_context_keywords, calls, asked_at, nevents >>

\* lines 325-332
ExecuteCoder ==
    /\ run.pc = "e_coder"
    /\ \/ Go([run EXCEPT !.pc = "e_save", !.code = "code"],
             << Call("coder", run.ask_user_prompt) >>)
       \/ Fail(<< Call("coder", run.ask_user_prompt) >>)
    /\ UNCHANGED << session, collected_context_keywords, seen_active, asked_at >>

\* line 334
ExecuteSave ==
    /\ run.pc = "e_save"
    /\ \/ /\ Go([run EXCEPT !.pc = "e_complete"],
                << Call("save_code_to_project", <<run.code>>) >>)
          /\ project_code' = [project_code EXCEPT ![run.project_name] =
                                                     Append(@, run.code)]
       \/ /\ Fail(<< Call("save_code_to_project", <<run.code>>) >>)
          /\ UNCHANGED project_code
    /\ UNCHANGED << created, active, completed, messages,
                    collected_context_keywords, seen_active, asked_at >>

\* lines 336-339
ExecuteComplete ==
    /\ run.pc = "e_complete"
    /\ messages' = add_message_from_devika(messages, run.project_name, Completion)
    /\ run' = [run EXCEPT !.pc = "e_inactive"]
    /\ UNCHANGED << created, active, completed, project_code,
                    collected_context_keywords, calls, seen_active, asked_at,
                    nevents >>

\* Lines 341 and 342 are exchanged: completed is written first.
ExecuteInactive_CompletedFirst ==
    /\ run.pc = "e_inactive"
    /\ completed' = set_agent_completed(completed, run.project_name, TRUE)
    /\ run' = [run EXCEPT !.pc = "e_completed"]
    /\ UNCHANGED << created, active, messages, project_code,
                    collected_context_keywords, calls, seen_active, asked_at,
                    nevents >>

\* Line 341 is missing.
ExecuteInactive_Skipped ==
    /\ run.pc = "e_inactive"
    /\ run' = [run EXCEPT !.pc = "e_completed"]
    /\ UNCHANGED << session, collected_context_keywords, calls, seen_active,
                    asked_at, nevents >>

\* line 341
ExecuteInactive ==
    /\ run.pc = "e_inactive"
    /\ active' = set_agent_active(active, run.project_name, FALSE)
    /\ run' = [run EXCEPT !.pc = "e_completed"]
    /\ UNCHANGED << created, completed, messages, project_code,
                    collected_context_keywords, calls, seen_active, asked_at,
                    nevents >>

\* lines 342-344
ExecuteCompleted ==
    /\ run.pc = "e_completed"
    /\ completed' = set_agent_completed(completed, run.project_name, TRUE)
    /\ run' = Return(run)
    /\ UNCHANGED << created, active, messages, project_code,
                    collected_context_keywords, calls, seen_active, asked_at,
                    nevents >>

(***************************************************************************)
(* Agent.subsequent_execute (agent.py 156-243).                              *)
(***************************************************************************)
\* What Action.execute (action.py 23-29) may select: one of the six kinds the
\* dispatch knows, or something else.
Actions == ActionKinds \cup {"unknown"}

\* lines 231-233: the download link of the objective's PDF
DownloadLink(project_name) ==
    <<"I have generated the PDF document. You can download it from here: ",
      "http://127.0.0.1:1337/api/download-project-pdf?project_name=", project_name>>

\* lines 195-199
DeployResponse == <<"json:", "Done! I deployed your project on Netflify.", "deploy_url">>

\* lines 206 and 219 read the local os_system, which only line 181 assigns
PlatformDefined(r) == r.os_system # Unbound

\* lines 181-190
RunCalls == << Call("get_project_path", <<>>), Call("runner", <<>>) >>

\* netlify.py 13-22
DeployCalls ==
    << Call("get_project_path", <<>>), Call("create_site", <<>>),
       Call("deploy_site", <<>>) >>

\* lines 227-236
ReportCalls ==
    << Call("reporter", <<>>), Call("markdown_to_pdf", <<>>), Call("go_to", <<>>),
       Call("screenshot", <<>>) >>

\* lines 156-160: the call, and active = true
SubsequentStart ==
    /\ Idle
    /\ nevents < MaxEvents
    /\ nevents' = nevents + 1
    /\ \E prompt \in Prompts, p \in created :
          /\ run' = [InitRun EXCEPT !.pc = "s_conversation",
                                    !.fn = "subsequent_execute",
                                    !.prompt = prompt, !.project_name = p]
          /\ active' = set_agent_active(active, p, TRUE)
          /\ seen_active' = (seen_active \/ active'[p])
    /\ UNCHANGED << created, completed, messages, project_code,
                    collected_context_keywords, calls, asked_at >>

\* lines 162-163
SubsequentConversation ==
    /\ run.pc = "s_conversation"
    /\ \/ Go([run EXCEPT !.pc = "s_action",
                         !.conversation =
                             get_all_messages_formatted(messages, run.project_name)],
             << Call("code_to_markdown", <<>>) >>)
       \/ Fail(<< Call("code_to_markdown", <<>>) >>)
    /\ UNCHANGED << session, collected_context_keywords, seen_active, asked_at >>

\* line 165
SubsequentAction ==
    /\ run.pc = "s_action"
    /\ \/ \E action \in Actions :
             Go([run EXCEPT !.pc = "s_narrate", !.action = action,
                            !.response = "narration"],
                << Call("action", <<>>) >>)
       \/ Fail(<< Call("action", <<>>) >>)
    /\ UNCHANGED << session, collected_context_keywords, seen_active, asked_at >>

\* lines 167-171, and the dispatch on action (173, 180, 191, 202, 213, 226)
SubsequentNarrate ==
    /\ run.pc = "s_narrate"
    /\ messages' = add_message_from_devika(messages, run.project_name,
                                           <<run.response>>)
    /\ run' = [run EXCEPT !.pc = IF run.action \in ActionKinds
                                 THEN "s_" \o run.action ELSE "s_inactive"]
    /\ UNCHANGED << created, active, completed, project_code,
                    collected_context_keywords, calls, seen_active, asked_at,
                    nevents >>

\* lines 174-178
SubsequentAnswer ==
    /\ run.pc = "s_answer"
    /\ \/ Go([run EXCEPT !.pc = "s_respond", !.response = "answer"],
             << Call("answer", <<>>) >>)
       \/ Fail(<< Call("answer", <<>>) >>)
    /\ UNCHANGED << session, collected_context_keywords, seen_active, asked_at >>

\* lines 181-190
SubsequentRun ==
    /\ run.pc = "s_run"
    /\ \/ Go([run EXCEPT !.pc = "s_inactive", !.os_system = "platform"], RunCalls)
       \/ Fail(RunCalls)
    /\ UNCHANGED << session, collected_context_keywords, seen_active, asked_at >>

\* lines 192-199
SubsequentDeploy ==
    /\ run.pc = "s_deploy"
    /\ \/ Go([run EXCEPT !.pc = "s_respond", !.response = "deploy"], DeployCalls)
       \/ \E k \in 2..Len(DeployCalls) : Fail(SubSeq(DeployCalls, 1, k))
    /\ UNCHANGED << session, collected_context_keywords, seen_active, asked_at >>

\* The calls of the feature and of the bug branch, lines 203-212 and 214-225.
FeatureCalls(code) ==
    << Call("feature", <<>>), Call("save_code_to_project", <<code>>) >>

PatcherCalls(error, code) ==
    << Call("patcher", <<error>>), Call("save_code_to_project", <<code>>) >>

\* lines 203-212: the arguments are evaluated, os_system among them, then
\* Feature.execute is called and the code it returns is saved
SubsequentFeature ==
    /\ run.pc = "s_feature"
    /\ IF PlatformDefined(run)
       THEN \/ /\ Go([run EXCEPT !.pc = "s_inactive", !.code = "code"],
                     FeatureCalls("code"))
               /\ project_code' = [project_code EXCEPT ![run.project_name] =
                                                          Append(@, "code")]
            \/ /\ \E k \in 1..2 : Fail(SubSeq(FeatureCalls("code"), 1, k))
               /\ UNCHANGED project_code
       ELSE /\ run' = RaiseUnbound(run)
            /\ UNCHANGED << calls, nevents, project_code >>
    /\ UNCHANGED << created, active, completed, messages,
                    collected_context_keywords, seen_active, asked_at >>

\* lines 214-225
SubsequentBug ==
    /\ run.pc = "s_bug"
    /\ IF PlatformDefined(run)
       THEN \/ /\ Go([run EXCEPT !.pc = "s_inactive", !.code = "code"],
                     PatcherCalls(run.prompt, "code"))
               /\ project_code' = [project_code EXCEPT ![run.project_name] =
                                                          Append(@, "code")]
            \/ /\ \E k \in 1..2 : Fail(SubSeq(PatcherCalls(run.prompt, "code"), 1, k))
               /\ UNCHANGED project_code
       ELSE /\ run' = RaiseUnbound(run)
            /\ UNCHANGED << calls, nevents, project_code >>
    /\ UNCHANGED << created, active, completed, messages,
                    collected_context_keywords, seen_active, asked_at >>

\* lines 227-236
SubsequentReport ==
    /\ run.pc = "s_report"
    /\ \/ Go([run EXCEPT !.pc = "s_respond", !.response = "report"], ReportCalls)
       \/ \E k \in 1..Len(ReportCalls) : Fail(SubSeq(ReportCalls, 1, k))
    /\ UNCHANGED << session, collected_context_keywords, seen_active, asked_at >>

\* lines 179, 201 and 238: the branch's Message
SubsequentRespond ==
    /\ run.pc = "s_respond"
    /\ messages' = add_message_from_devika(messages, run.project_name,
                      CASE run.response = "deploy" -> DeployResponse
                        [] run.response = "report" -> DownloadLink(run.project_name)
                        [] OTHER -> <<run.response>>)
    /\ run' = [run EXCEPT !.pc = "s_inactive"]
    /\ UNCHANGED << created, active, completed, project_code,
                    collected_context_keywords, calls, seen_active, asked_at,
                    nevents >>

\* line 240
SubsequentInactive ==
    /\ run.pc = "s_inactive"
    /\ active' = set_agent_active(active, run.project_name, FALSE)
    /\ run' = [run EXCEPT !.pc = "s_completed"]
    /\ UNCHANGED << created, completed, messages, project_code,
                    collected_context_keywords, calls, seen_active, asked_at,
                    nevents >>

\* lines 241-243
SubsequentCompleted ==
    /\ run.pc = "s_completed"
    /\ completed' = set_agent_completed(completed, run.project_name, TRUE)
    /\ run' = Return(run)
    /\ UNCHANGED << created, active, messages, project_code,
                    collected_context_keywords, calls, seen_active, asked_at,
                    nevents >>

(***************************************************************************)
(* Agent.make_decision (agent.py 102-154).  run.decision is the list the     *)
(* Decision role returned and run.di the index of the item the loop is at.   *)
(***************************************************************************)
Functions == {"generate_pdf_document", "browser_interaction", "coding_project"}

\* item["reply"], a text for the user
ReplyOf ==
    [f \in Functions \cup {"unknown"} |->
        CASE f = "generate_pdf_document" -> "ok"
          [] f = "browser_interaction" -> "opening the browser"
          [] f = "coding_project" -> "writing the code"
          [] OTHER -> "hm"]

\* The items of the Decision role's list; args holds args["user_prompt"].  The
\* role may name a function the dispatch does not know.
Items ==
    { [function |-> f, args |-> "X", reply |-> ReplyOf[f]] :
         f \in Functions \cup {"unknown"} }

Decisions == SeqsUpTo(Items, MaxItems)

\* The document is not rendered.
PdfCalls_NoRender ==
    << Call("reporter", <<>>), Call("go_to", <<>>), Call("screenshot", <<>>) >>

\* lines 118-126
PdfCalls ==
    << Call("reporter", <<>>), Call("markdown_to_pdf", <<>>), Call("go_to", <<>>),
       Call("screenshot", <<>>) >>

\* Every iteration takes the first item.
Item_First == run.decision[1]

Item == run.decision[run.di]

\* The loop goes on to the next item.
NextItem(r) == [r EXCEPT !.pc = "d_item", !.di = @ + 1]

\* line 102: the call
DecisionStart ==
    /\ Idle
    /\ nevents < MaxEvents
    /\ nevents' = nevents + 1
    /\ \E prompt \in Prompts, p \in created :
          run' = [InitRun EXCEPT !.pc = "d_decision", !.fn = "make_decision",
                                 !.prompt = prompt, !.project_name = p,
                                 !.log0 = Len(messages[p])]
    /\ UNCHANGED << session, collected_context_keywords, calls, seen_active, asked_at >>

\* line 106
DecisionDecide ==
    /\ run.pc = "d_decision"
    /\ \/ \E decision \in Decisions :
             Go([run EXCEPT !.pc = "d_item", !.decision = decision, !.di = 1],
                << Call("decision", <<run.prompt>>) >>)
       \/ Fail(<< Call("decision", <<run.prompt>>) >>)
    /\ UNCHANGED << session, collected_context_keywords, seen_active, asked_at >>

\* lines 108-113, and the dispatch on function (115, 130, 135)
DecisionReply ==
    /\ run.pc = "d_item"
    /\ run.di <= Len(run.decision)
    /\ messages' = add_message_from_devika(messages, run.project_name,
                                           <<Item.reply>>)
    /\ run' = CASE Item.function = "generate_pdf_document" ->
                      [run EXCEPT !.pc = "d_pdf"]
                [] Item.function = "browser_interaction" ->
                      [run EXCEPT !.pc = "d_browser"]
                [] Item.function = "coding_project" ->
                      [run EXCEPT !.pc = "d_planner"]
                [] OTHER -> NextItem(run)
    /\ UNCHANGED << created, active, completed, project_code,
                    collected_context_keywords, calls, seen_active, asked_at,
                    nevents >>

\* lines 116-126
DecisionPdf ==
    /\ run.pc = "d_pdf"
    /\ \/ Go([run EXCEPT !.pc = "d_response"], PdfCalls)
       \/ \E k \in 1..Len(PdfCalls) : Fail(SubSeq(PdfCalls, 1, k))
    /\ UNCHANGED << session, collected_context_keywords, seen_active, asked_at >>

\* line 128
DecisionResponse ==
    /\ run.pc = "d_response"
    /\ messages' = add_message_from_devika(messages, run.project_name,
                                           DownloadLink(run.project_name))
    /\ run' = NextItem(run)
    /\ UNCHANGED << created, active, completed, project_code,
                    collected_context_keywords, calls, seen_active, asked_at,
                    nevents >>

\* lines 131-133
DecisionBrowser ==
    /\ run.pc = "d_browser"
    /\ \/ Go(NextItem(run), << Call("start_interaction", <<Item.args>>) >>)
       \/ Fail(<< Call("start_interaction", <<Item.args>>) >>)
    /\ UNCHANGED << session, collected_context_keywords, seen_active, asked_at >>

\* lines 138-143: the Planner, then the Researcher
PlanCalls == << Call("planner", <<Item.args>>), Call("researcher", <<>>) >>

\* lines 136-144: the plan, the research, and the call of search_queries
DecisionPlan ==
    /\ run.pc = "d_planner"
    /\ \/ \E plan \in Plans, queries \in QueryLists, ask_user \in Questions :
             Go([run EXCEPT !.pc = "search", !.ret = "d_coder", !.qi = 1,
                            !.search_results = <<>>, !.plan = plan,
                            !.queries = queries, !.ask_user = ask_user],
                PlanCalls)
       \/ \E k \in 1..Len(PlanCalls) : Fail(SubSeq(PlanCalls, 1, k))
    /\ UNCHANGED << session, collected_context_keywords, seen_active, asked_at >>

\* lines 146-152: user_context is research["ask_user"]
CodeCalls(r) ==
    << Call("coder", <<r.ask_user>>), Call("save_code_to_project", <<"code">>) >>

\* lines 146-152: the Coder, and the code persisted
DecisionCode ==
    /\ run.pc = "d_coder"
    /\ \/ /\ Go(NextItem([run EXCEPT !.code = "code"]), CodeCalls(run))
          /\ project_code' = [project_code EXCEPT ![run.project_name] =
                                                     Append(@, "code")]
       \/ /\ \E k \in 1..Len(CodeCalls(run)) : Fail(SubSeq(CodeCalls(run), 1, k))
          /\ UNCHANGED project_code
    /\ UNCHANGED << created, active, completed, messages,
                    collected_context_keywords, seen_active, asked_at >>

\* The handler ends as the two pipelines do, writing the flags.
DecisionReturn_WritesFlags ==
    /\ run.pc = "d_item"
    /\ run.di > Len(run.decision)
    /\ active' = set_agent_active(active, run.project_name, FALSE)
    /\ completed' = set_agent_completed(completed, run.project_name, TRUE)
    /\ run' = Return(run)
    /\ UNCHANGED << created, messages, project_code, collected_context_keywords,
                    calls, seen_active, asked_at, nevents >>

\* lines 108 and 154: the list is exhausted
DecisionReturn ==
    /\ run.pc = "d_item"
    /\ run.di > Len(run.decision)
    /\ run' = Return(run)
    /\ UNCHANGED << session, collected_context_keywords, calls, seen_active,
                    asked_at, nevents >>

(***************************************************************************)
(* The system.                                                               *)
(***************************************************************************)
Update == UpdateStart \/ UpdateExtract \/ UpdateAdd

Search == SearchQuery \/ SearchReturn

Poll == PollLatest \/ PollValidate \/ PollAck

Execute ==
    \/ ExecuteStart \/ ExecutePlanner \/ ExecuteProject \/ ExecuteRequest
    \/ ExecuteActive \/ ExecuteReply \/ ExecutePlans \/ ExecuteSummary
    \/ ExecuteResearcher \/ ExecuteAnnounce \/ ExecuteAsk \/ ExecuteSuspend
    \/ Poll \/ ExecuteResume \/ ExecuteCoder \/ ExecuteSave \/ ExecuteComplete
    \/ ExecuteInactive \/ ExecuteCompleted

Subsequent ==
    \/ SubsequentStart \/ SubsequentConversation \/ SubsequentAction
    \/ SubsequentNarrate \/ SubsequentAnswer \/ SubsequentRun \/ SubsequentDeploy
    \/ SubsequentFeature \/ SubsequentBug \/ SubsequentReport
    \/ SubsequentRespond \/ SubsequentInactive \/ SubsequentCompleted

Writer == WriterAppendUser \/ WriterAppendSystem

Next == Execute \/ Subsequent \/ Update \/ Search \/ HandlerExit \/ Writer

Spec == Init /\ [][Next]_vars

\* The orchestrator thread is scheduled: the poll loop goes round (the sleep
\* of line 316 ends) and the statement after the loop is executed.
LiveSpec == Spec /\ WF_vars(Poll \/ ExecuteResume)

Decision ==
    \/ DecisionStart \/ DecisionDecide \/ DecisionReply \/ DecisionPdf
    \/ DecisionResponse \/ DecisionBrowser \/ DecisionPlan \/ DecisionCode
    \/ DecisionReturn

\* The three pipelines of the orchestrator and the write path.
DecisionNext == Next \/ Decision

DecisionSpec == Init /\ [][DecisionNext]_vars

\* search_queries on its own.
SearchNext == SearchStart \/ SearchQuery \/ SearchReturn \/ HandlerExit

SearchSpec == Init /\ [][SearchNext]_vars

(***************************************************************************)
(* Properties.                                                               *)
(***************************************************************************)
Objective == run.project_name

Log == messages[Objective]

AtEnd(fn) == run.pc = "end" /\ run.fn = fn

Count(op) == Cardinality({ i \in DOMAIN calls : calls[i].op = op })

\* C1: a run of execute or subsequent_execute that returns normally ends with
\* completed = true and active = false at once, and active was true earlier
\* in that run.
C1_CompletedRun ==
    (run.pc = "end" /\ run.outcome = "returned"
        /\ run.fn \in {"execute", "subsequent_execute"})
    => /\ completed[Objective]
       /\ ~active[Objective]
       /\ seen_active

\* A run of execute that was suspended for input and has returned.
C1_Witness == AtEnd("execute") /\ run.outcome = "returned" /\ asked_at > 0

\* The thread is about to invoke a role or a collaborator for an objective.
Invoking ==
    /\ Objective \in Projects
    /\ \/ run.pc \in { "e_planner", "u_extract", "e_researcher", "e_coder", "e_save",
                       "s_conversation", "s_action", "s_answer", "s_run",
                       "s_deploy", "s_report" }
       \/ run.pc = "search" /\ run.qi <= Len(run.queries)

\* C2: over any sequence of runs on one objective, no role or collaborator is
\* invoked while active and completed are both true.
C2_NeverBothWhenInvoking ==
    Invoking => ~(active[Objective] /\ completed[Objective])

\* C3: the wait is left only at a poll at which the last Message of the log is
\* of origin user; a poll at which it is not keeps the orchestrator waiting.
C3_AcceptOnlyLastUser ==
    [][ (run.pc = "e_poll_validate" /\ run'.pc # "e_poll_validate")
        => /\ run'.pc = "e_ack" => Last(Log).origin = "user"
           /\ Last(Log).origin # "user" => run'.pc = "e_poll_latest" ]_vars

\* A poll has read a user Message appended after the question, and a system
\* Message was appended after it, before the poll's second read.
C3_Witness ==
    /\ run.pc = "e_poll_validate"
    /\ run.latest_message_from_user.timestamp > asked_at
    /\ Last(Log).origin = "system"
    /\ Last(Log).timestamp > run.latest_message_from_user.timestamp

\* C4: the text accepted as the human's answer is the body of a user Message
\* appended after the clarifying question, never a stale one such as the
\* original request, whatever the interleaving of appends with the two reads.
C4_AcceptedAfterQuestion ==
    run.pc = "e_ack" => run.latest_message_from_user.timestamp > asked_at

Waiting == run.pc \in {"e_poll_latest", "e_poll_validate"}

AcksSinceQuestion ==
    Cardinality({ i \in DOMAIN Log : /\ i > asked_at
                                     /\ Log[i].origin = "system"
                                     /\ Log[i].body = Thanks })

Resumed ==
    /\ run.fn = "execute"
    /\ run.pc = "search"
    /\ run.got_user_query
    /\ active[Objective]
    /\ AcksSinceQuestion = 1

\* C5: when execute is suspended and a user Message is the last of the log,
\* then, unless a later Message takes its place as the last one, the poll loop
\* accepts, exactly one acknowledgement is appended, active is set and the
\* search stage is reached.
C5_ResumeLiveness ==
    (Waiting /\ Last(Log).origin = "user")
        ~> (Resumed \/ (Waiting /\ Last(Log).origin # "user"))

C5_Witness == Resumed /\ asked_at > 0

\* C6: subsequent_execute ends with active = false and completed = true
\* whichever action was dispatched (no role or collaborator call having raised).
C6_ExitFlags ==
    (AtEnd("subsequent_execute") /\ run.action \in Actions /\ run.outcome # "raised")
    => ~active[Objective] /\ completed[Objective]

\* C7: in subsequent_execute the platform descriptor is assigned before the
\* feature or the bug branch reads it.
C7_PlatformAssigned ==
    run.pc \in {"s_feature", "s_bug"} => PlatformDefined(run)

\* The role (or collaborator) the dispatch invokes for an action kind.
BranchRole(action) ==
    CASE action = "answer" -> "answer"
      [] action = "run" -> "runner"
      [] action = "deploy" -> "deploy_site"
      [] action = "feature" -> "feature"
      [] action = "bug" -> "patcher"
      [] action = "report" -> "reporter"

\* Narration Messages appended since the conversation was read (line 162).
NarrationsOfRun ==
    Cardinality({ i \in DOMAIN Log : /\ i > Len(run.conversation)
                                     /\ Log[i].origin = "system"
                                     /\ Log[i].body = <<"narration">> })

\* C8: for each of the six action kinds, subsequent_execute invokes exactly one
\* role in the branch and appends exactly one narration Message, before the
\* branch.
C8_DispatchComplete ==
    /\ (run.fn = "subsequent_execute" /\ run.pc \in { "s_" \o a : a \in ActionKinds })
       => NarrationsOfRun = 1 /\ Count(BranchRole(run.action)) = 0
    /\ (AtEnd("subsequent_execute") /\ run.action \in ActionKinds
           /\ run.outcome # "raised")
       => NarrationsOfRun = 1 /\ Count(BranchRole(run.action)) = 1

LowerCase == [c \in {"A", "B", "a", "b", " "} |-> IF c = "A" THEN "a" ELSE IF c = "B" THEN "b" ELSE c]

IsTrimmedLowerOf(key, query) ==
    \E lead \in 0..Len(query), trail \in 0..Len(query) :
       /\ lead + trail <= Len(query)
       /\ Len(key) = Len(query) - lead - trail
       /\ \A i \in 1..lead : query[i] \in Whitespace
       /\ \A i \in (Len(query) - trail + 1)..Len(query) : query[i] \in Whitespace
       /\ key # <<>> => key[1] \notin Whitespace /\ key[Len(key)] \notin Whitespace
       /\ \A i \in 1..Len(key) : key[i] = LowerCase[query[lead + i]]

SearchArgs == SelectSeq(calls, LAMBDA c : c.op = "search")

\* C10: when search_queries returns, the search collaborator has been run once
\* per list element, in list order, and the keys of the result are exactly the
\* trimmed, lower-cased queries.
C10_SearchFanOut ==
    (run.pc = "search" /\ run.qi > Len(run.queries))
    => /\ Len(SearchArgs) = Len(run.queries)
       /\ \A i \in 1..Len(run.queries) :
             IsTrimmedLowerOf(SearchArgs[i].arg, run.queries[i])
       /\ \A key \in DOMAIN run.search_results :
             \E i \in 1..Len(run.queries) : IsTrimmedLowerOf(key, run.queries[i])
       /\ \A i \in 1..Len(run.queries) :
             \E key \in DOMAIN run.search_results :
                IsTrimmedLowerOf(key, run.queries[i])

\* Two queries that differ in case and padding from their keys, two entries.
C10_Witness ==
    /\ run.fn = "search_queries"
    /\ run.pc = "search"
    /\ run.qi > Len(run.queries)
    /\ Len(run.queries) = 2
    /\ Cardinality(DOMAIN run.search_results) = 2
    /\ run.queries[1] \notin DOMAIN run.search_results
    /\ run.queries[2] \notin DOMAIN run.search_results

(***************************************************************************)
(* make_decision.                                                            *)
(***************************************************************************)
\* The bodies of the Messages the orchestrator has appended since the handler
\* was called; the Messages of the write path are left out.
RunBodies ==
    LET own == SelectSeq(SubSeq(Log, run.log0 + 1, Len(Log)),
                         LAMBDA m : /\ m.origin = "system"
                                    /\ m.body \notin { <<t>> : t \in SystemTexts })
    IN  [i \in 1..Len(own) |-> own[i].body]

\* The items among the first k that ask for a PDF document.
PdfItems(k) ==
    Cardinality({ i \in 1..k : run.decision[i].function = "generate_pdf_document" })

Links == Cardinality({ i \in DOMAIN RunBodies : RunBodies[i] = DownloadLink(Objective) })

CallOps == [i \in DOMAIN calls |-> calls[i].op]

EndsWith(s, t) == Len(s) >= Len(t) /\ SubSeq(s, Len(s) - Len(t) + 1, Len(s)) = t

\* C11: in make_decision every generate_pdf_document item causes one Reporter
\* invocation, one PDF render, one navigate followed by one screenshot, and two
\* Messages: the item's reply before the branch, the download link after the
\* render and the screenshot.
C11_PdfItem ==
    /\ (run.fn = "make_decision" /\ run.pc = "d_pdf")
       => /\ Last(RunBodies) = <<Item.reply>>
          /\ Count("reporter") = PdfItems(run.di - 1)
          /\ Links = PdfItems(run.di - 1)
    /\ (run.fn = "make_decision" /\ run.pc = "d_response")
       => /\ Last(RunBodies) = <<Item.reply>>
          /\ EndsWith(CallOps, <<"reporter", "markdown_to_pdf", "go_to", "screenshot">>)
          /\ Links = PdfItems(run.di - 1)
    /\ (run.fn = "make_decision"
          /\ (run.pc = "d_item" \/ (run.pc = "end" /\ run.outcome = "returned")))
       => /\ Count("reporter") = PdfItems(run.di - 1)
          /\ Count("markdown_to_pdf") = PdfItems(run.di - 1)
          /\ Count("go_to") = PdfItems(run.di - 1) + Count("search")
          /\ Count("screenshot") = PdfItems(run.di - 1) + Count("search")
          /\ Links = PdfItems(run.di - 1)
          /\ Len(RunBodies) = (run.di - 1) + PdfItems(run.di - 1)
          /\ (run.di > 1 /\ run.decision[run.di - 1].function = "generate_pdf_document")
             => /\ Len(RunBodies) >= 2
                /\ SubSeq(RunBodies, Len(RunBodies) - 1, Len(RunBodies))
                      = << <<run.decision[run.di - 1].reply>>, DownloadLink(Objective) >>

\* make_decision has returned from a list of two items, both PDF documents.
C11_Witness ==
    /\ AtEnd("make_decision")
    /\ run.outcome = "returned"
    /\ Len(run.decision) = 2
    /\ PdfItems(2) = 2

\* The Messages a processed item leaves in the log.
ItemBodies(item, p) ==
    IF item.function = "generate_pdf_document"
    THEN << <<item.reply>>, DownloadLink(p) >>
    ELSE << <<item.reply>> >>

RECURSIVE BodiesOf(_, _)
BodiesOf(items, p) ==
    IF items = <<>> THEN <<>>
    ELSE ItemBodies(Head(items), p) \o BodiesOf(Tail(items), p)

\* The first call of each branch of the dispatch.
HeadOps == {"reporter", "start_interaction", "planner"}

RECURSIVE HeadsOf(_)
HeadsOf(items) ==
    IF items = <<>> THEN <<>>
    ELSE (CASE Head(items).function = "generate_pdf_document" -> <<"reporter">>
            [] Head(items).function = "browser_interaction" -> <<"start_interaction">>
            [] Head(items).function = "coding_project" -> <<"planner">>
            [] OTHER -> <<>>) \o HeadsOf(Tail(items))

Heads == SelectSeq(CallOps, LAMBDA op : op \in HeadOps)

\* The loop is inside the branch of item run.di, or that branch has failed.
InBranch ==
    \/ run.pc \in {"d_pdf", "d_response", "d_browser", "d_planner", "search", "d_coder"}
    \/ run.pc = "end" /\ run.outcome = "raised" /\ run.di >= 1

ItemsDone == SubSeq(run.decision, 1, run.di - 1)

ItemsBegun == SubSeq(run.decision, 1, run.di)

IsPrefixOf(s, t) == Len(s) <= Len(t) /\ SubSeq(t, 1, Len(s)) = s

\* C12: make_decision processes the items in the order returned: what the run
\* has appended and called is what the items before the current one leave, in
\* their order, then the current item's reply and its branch, and nothing of a
\* later item; after a failure in item k that is all there is, and no step
\* removes or rewrites a Message of the log.
C12_InOrder ==
    /\ [](run.fn = "make_decision" /\ run.di >= 1
          => /\ RunBodies = BodiesOf(ItemsDone, Objective)
                               \o (IF InBranch THEN << <<run.decision[run.di].reply>> >>
                                   ELSE <<>>)
             /\ IF InBranch
                THEN Heads \in { HeadsOf(ItemsDone), HeadsOf(ItemsBegun) }
                ELSE Heads = HeadsOf(ItemsDone))
    /\ [][ \A p \in Projects : IsPrefixOf(messages[p], messages'[p]) ]_vars

\* The branch of the second of two items has failed, the first having left
\* two Messages.
C12_Witness ==
    /\ AtEnd("make_decision")
    /\ run.outcome = "raised"
    /\ run.di = 2
    /\ Len(run.decision) = 2
    /\ run.decision[1].function = "generate_pdf_document"
    /\ run.decision[2].function = "coding_project"
    /\ Len(RunBodies) = 3

(***************************************************************************)
(* execute, end to end.                                                      *)
(***************************************************************************)
\* A Message appended by the write path.
FromWriter(m) ==
    \/ m.origin = "user" /\ m.body \in { <<t>> : t \in UserTexts }
    \/ m.origin = "system" /\ m.body \in { <<t>> : t \in SystemTexts }

NoWriter(log) == \A i \in DOMAIN log : ~FromWriter(log[i])

Fresh == run.fn = "execute" /\ run.project_name_from_user = None

CoderArgs == SelectSeq(calls, LAMBDA c : c.op = "coder")

\* C13: a run of execute without identifier whose Researcher asks nothing, the
\* write path staying away from the objective: no Message precedes the
\* session's creation, the log at completion is the request, the narration,
\* the steps, the summary, the announcement and the completion Message, the
\* poll loop is not entered, active is written false at the last step only,
\* and the Coder is given the sentinel.
C13_FreshRun ==
    /\ [](/\ \A p \in Projects : p \notin created => messages[p] = <<>>
          /\ (Fresh /\ run.ask_user = "" /\ run.pc \in {"e_resume", "search", "e_coder",
                                                        "e_save", "e_complete"})
             => asked_at = 0 /\ ~run.got_user_query
          /\ (Fresh /\ run.pc \in {"e_ask", "e_suspend", "e_poll_latest",
                                    "e_poll_validate", "e_ack"})
             => run.ask_user # ""
          /\ (Fresh /\ run.ask_user = "" /\ run.pc = "end" /\ run.outcome = "returned"
                 /\ NoWriter(Log))
             => /\ Log = << [origin |-> "user", body |-> <<run.prompt>>, timestamp |-> 1],
                            [origin |-> "system", body |-> <<run.plan.reply>>, timestamp |-> 2],
                            [origin |-> "system", body |-> <<"json:", run.plan.plans>>,
                             timestamp |-> 3],
                            [origin |-> "system",
                             body |-> <<"In summary: ", run.plan.summary>>, timestamp |-> 4],
                            [origin |-> "system", body |-> Announcement(run.queries),
                             timestamp |-> 5],
                            [origin |-> "system", body |-> Completion, timestamp |-> 6] >>
                /\ asked_at = 0
                /\ Len(CoderArgs) = 1
                /\ CoderArgs[1].arg = <<"Nothing from the user.">>)
    /\ [][ (Fresh /\ run'.fn = "execute" /\ run'.ask_user = ""
               /\ run.project_name \in Projects
               /\ active[run.project_name] /\ ~active'[run.project_name])
           => run.pc = "e_inactive" /\ run'.pc = "e_completed" ]_vars

\* Such a run has returned, one query having been searched.
C13_Witness ==
    /\ Fresh
    /\ run.pc = "end"
    /\ run.outcome = "returned"
    /\ run.ask_user = ""
    /\ NoWriter(Log)
    /\ Len(run.queries) = 1

(***************************************************************************)
(* Failures and the flags.                                                   *)
(***************************************************************************)
Pipeline == run.fn \in {"execute", "subsequent_execute"}

\* The step is a call of a role or collaborator that raises.
Failing == nevents' = nevents + 1 /\ calls' # calls

\* C14: when a role or collaborator call fails in execute or
\* subsequent_execute, the run is left at once with the flags and the log as
\* they were; after it the run calls nothing, writes no flag and appends no
\* Message, the Messages of the log stay, and completed is written only by a
\* run that returns.
C14_FailureAborts ==
    [][ /\ (Pipeline /\ Failing)
           => /\ run'.pc = "end" /\ run'.outcome = "raised"
              /\ active' = active /\ completed' = completed /\ messages' = messages
        /\ (Pipeline /\ run.pc = "end" /\ run.outcome = "raised")
           => /\ active' = active /\ completed' = completed
              /\ calls' \in {calls, <<>>}
              /\ \A p \in Projects : IsPrefixOf(messages[p], messages'[p])
              /\ (messages' # messages)
                 => /\ run' = run
                    /\ \A p \in Projects :
                          messages'[p] # messages[p] => FromWriter(Last(messages'[p]))
        /\ (Pipeline /\ completed' # completed) => run'.outcome = "returned" ]_vars

\* execute has failed after it was resumed, leaving active = true and the
\* Messages appended so far.
C14_Witness ==
    /\ AtEnd("execute")
    /\ run.outcome = "raised"
    /\ asked_at > 0
    /\ run.got_user_query
    /\ active[Objective]
    /\ ~completed[Objective]
    /\ Len(Log) >= 8

\* The objective the frame r writes to, once it is known.
ObjectiveOf(r) ==
    IF r.project_name_from_user # None THEN r.project_name_from_user
    ELSE r.project_name

\* The frame r is a pipeline run between its first and its last write to p.
InWindow(r, p) ==
    /\ r.fn \in {"execute", "subsequent_execute"}
    /\ r.pc \notin {"idle", "end"}
    /\ ObjectiveOf(r) = p

\* The step is the call of execute or subsequent_execute.
Begins == run'.pc \in {"e_planner", "s_conversation"} /\ run.pc # run'.pc

C16_CompletedMonotonic ==
    [][ /\ \A p \in Projects : completed[p] => completed'[p]
        /\ (completed' # completed)
           => /\ run.fn \in {"execute", "subsequent_execute"}
              /\ run'.pc = "end" /\ run'.outcome = "returned"
              /\ \A p \in Projects : completed'[p] # completed[p] => p = Objective
        /\ (run.pc = "end")
           => /\ created' = created /\ active' = active /\ completed' = completed
              /\ project_code' = project_code
              /\ (messages' # messages) => run' = run ]_vars

\* A run has written completed = true on an objective an earlier run had
\* completed already.
C16_Witness ==
    /\ AtEnd("subsequent_execute")
    /\ run.outcome = "returned"
    /\ completed[Objective]
    /\ \E i \in DOMAIN Log : Log[i].body = Completion

(***************************************************************************)
(* execute on a supplied identifier.                                         *)
(***************************************************************************)
WithIdentifier(r) == r.fn = "execute" /\ r.project_name_from_user # None

\* The user Messages of p's log that hold the prompt.
Requests(msgs, p, prompt) ==
    Cardinality({ i \in DOMAIN msgs[p] : /\ msgs[p][i].origin = "user"
                                         /\ msgs[p][i].body = <<prompt>> })

\* C17: execute given an identifier creates no session, invokes the Planner,
\* records the prompt once as a user Message, at the call, and mutates the
\* Session State of the identifier only, whatever name the Planner returns.
C17_SuppliedIdentifier ==
    /\ [](WithIdentifier(run) /\ run.pc \notin {"e_planner", "end"}
          => Count("planner") = 1)
    /\ [][ WithIdentifier(run')
           => LET id == run'.project_name_from_user
              IN  /\ created' = created
                  /\ Requests(messages', id, run'.prompt)
                        = Requests(messages, id, run'.prompt)
                             + (IF run.pc = "idle" THEN 1 ELSE 0)
                  /\ \A p \in Projects \ {id} :
                        /\ active'[p] = active[p]
                        /\ completed'[p] = completed[p]
                        /\ project_code'[p] = project_code[p]
                        /\ messages'[p] # messages[p] => run' = run ]_vars

\* The Planner has named an objective other than the identifier, one that has
\* no Session State.
C17_Witness ==
    /\ WithIdentifier(run)
    /\ run.pc = "e_project"
    /\ run.project_name # run.project_name_from_user
    /\ run.project_name \notin created
    /\ Requests(messages, run.project_name_from_user, run.prompt) = 2

(***************************************************************************)
(* The suspension of execute.                                                *)
(***************************************************************************)
InPoll == run.pc \in {"e_poll_latest", "e_poll_validate", "e_ack"}

\* The clarifying question of this run is in the log.
QuestionAppended ==
    /\ run.ask_user # ""
    /\ asked_at \in DOMAIN Log
    /\ Log[asked_at].origin = "system"
    /\ Log[asked_at].body = <<run.ask_user>>

\* C18: execute writes active = false, but for its last step, only once the
\* clarifying question is in the log; active is false wherever execute is in
\* the poll loop; and it is true again wherever execute searches, invokes the
\* Coder or persists the code.
C18_Suspension ==
    /\ [](run.fn = "execute"
          => /\ InPoll => ~active[Objective] /\ QuestionAppended
             /\ run.pc \in {"search", "e_coder", "e_save"} => active[Objective])
    /\ [][ (run.fn = "execute" /\ run'.fn = "execute" /\ Objective \in Projects
               /\ active[Objective] /\ ~active'[Objective])
           => \/ run.pc = "e_inactive"
              \/ run.pc = "e_suspend" /\ QuestionAppended ]_vars

\* execute was suspended, has been resumed and has searched.
C18_Witness ==
    /\ run.fn = "execute"
    /\ run.pc = "e_coder"
    /\ run.got_user_query
    /\ Count("search") = 1

(***************************************************************************)
(* The order of the roles in execute.                                        *)
(***************************************************************************)
\* What one search calls, by name.
SearchOps ==
    <<"search", "get_first_link", "go_to", "screenshot", "extract_text", "formatter">>

RECURSIVE Repeat(_, _)
Repeat(s, n) == IF n = 0 THEN <<>> ELSE s \o Repeat(s, n - 1)

\* The calls of a whole run of execute, by name, for the queries it has.
PipelineOps ==
    <<"planner", "extract_keywords", "researcher">>
        \o Repeat(SearchOps, Len(run.queries))
        \o <<"coder", "save_code_to_project">>

CodingOps ==
    <<"planner", "researcher">> \o Repeat(SearchOps, Len(run.queries))
        \o <<"coder", "save_code_to_project">>

\* C20: no step of make_decision changes active, completed or the Contextual
\* Keyword Set, nor enters the wait for input; a coding_project item calls the
\* Planner, the Researcher, the searches, the Coder and the code persistence
\* in a row, a clarifying question of the Researcher being handed to the Coder.
C20_DecisionFrame ==
    /\ [](run.fn = "make_decision"
          => /\ run.pc \notin {"e_ask", "e_suspend", "e_poll_latest", "e_poll_validate",
                              "e_ack", "e_resume"}
             /\ asked_at = 0 /\ ~run.got_user_query
             /\ (run.pc = "d_item" /\ run.di > 1
                   /\ run.decision[run.di - 1].function = "coding_project")
                => /\ EndsWith(CallOps, CodingOps)
                   /\ Last(CoderArgs).arg = <<run.ask_user>>
                   /\ project_code[Objective] # <<>>)
    /\ [][ (run.fn = "make_decision" \/ run'.fn = "make_decision")
           => /\ active' = active
              /\ completed' = completed
              /\ collected_context_keywords' = collected_context_keywords ]_vars

\* make_decision has returned from a coding_project item whose Researcher
\* asked a question, on an objective that is active, the keyword set not empty.
C20_Witness ==
    /\ AtEnd("make_decision")
    /\ run.outcome = "returned"
    /\ run.decision # <<>>
    /\ Last(run.decision).function = "coding_project"
    /\ run.ask_user # ""
    /\ Len(run.queries) = 1
    /\ active[Objective]
    /\ collected_context_keywords # {}

====
